---- MODULE Spec2Model ----
(***************************************************************************)
(* Model of the tree-sitter-visitor procedural macro                       *)
(* (tree-sitter-visitor/src/lib.rs) and of the Calculator consumer of its  *)
(* test crate (tree-sitter-tests/bindings/rust/lib.rs).                    *)
(*                                                                         *)
(* Strings are sequences of one-character strings, so that pushing a       *)
(* character, appending a replacement and ends_with are what the code    *)
(* does to a String.                                                       *)
(***************************************************************************)
EXTENDS Integers, Sequences, FiniteSets, TLC

\* ------------------------------------------------------------------------
\* Bounds of the model
\* ------------------------------------------------------------------------
MaxLen == 3
MaxSchemaLen == 2
MaxVisits == 5

\* ------------------------------------------------------------------------
\* sanitize_identifier (lib.rs 57-111)
\* ------------------------------------------------------------------------
Lower == {"a", "b", "c", "d", "e", "f", "g", "h", "i", "j", "k", "l", "m",
          "n", "o", "p", "q", "r", "s", "t", "u", "v", "w", "x", "y", "z"}
Upper == {"A", "B", "C", "D", "E", "F", "G", "H", "I", "J", "K", "L", "M",
          "N", "O", "P", "Q", "R", "S", "T", "U", "V", "W", "X", "Y", "Z"}
Digit == {"0", "1", "2", "3", "4", "5", "6", "7", "8", "9"}

\* IsPassThrough without the test c == '_'
IsPassThroughNoUnderscore(c) == c \in Lower \/ c \in Upper \/ c \in Digit

\* the condition of the if at lib.rs 60-63
IsPassThrough(c) == c \in Lower \/ c \in Upper \/ c \in Digit \/ c = "_"

\* The character U+0060, which a string of this language cannot hold
Backtick == "<backtick>"

\* the arm "_ => continue" of the match: no replacement
NoReplacement == <<>>

\* the match c at lib.rs 67-103
Replacement(c) ==
  CASE c = "~"  -> <<"T", "I", "L", "D", "E">>
    [] c = Backtick -> <<"B", "Q", "U", "O", "T", "E">>
    [] c = "!"  -> <<"B", "A", "N", "G">>
    [] c = "@"  -> <<"A", "T">>
    [] c = "#"  -> <<"P", "O", "U", "N", "D">>
    [] c = "$"  -> <<"D", "O", "L", "L", "A", "R">>
    [] c = "%"  -> <<"P", "E", "R", "C", "E", "N", "T">>
    [] c = "^"  -> <<"C", "A", "R", "E", "T">>
    [] c = "&"  -> <<"A", "M", "P">>
    [] c = "*"  -> <<"S", "T", "A", "R">>
    [] c = "("  -> <<"L", "P", "A", "R", "E", "N">>
    [] c = ")"  -> <<"R", "P", "A", "R", "E", "N">>
    [] c = "-"  -> <<"D", "A", "S", "H">>
    [] c = "+"  -> <<"P", "L", "U", "S">>
    [] c = "="  -> <<"E", "Q">>
    [] c = "{"  -> <<"L", "B", "R", "A", "C", "E">>
    [] c = "}"  -> <<"R", "B", "R", "A", "C", "E">>
    [] c = "["  -> <<"L", "B", "R", "A", "C", "K">>
    [] c = "]"  -> <<"R", "B", "R", "A", "C", "K">>
    [] c = "\\" -> <<"B", "S", "L", "A", "S", "H">>
    [] c = "|"  -> <<"P", "I", "P", "E">>
    [] c = ":"  -> <<"C", "O", "L", "O", "N">>
    [] c = ";"  -> <<"S", "E", "M", "I">>
    [] c = "\"" -> <<"D", "Q", "U", "O", "T", "E">>
    [] c = "'"  -> <<"S", "Q", "U", "O", "T", "E">>
    [] c = "<"  -> <<"L", "T">>
    [] c = ">"  -> <<"G", "T">>
    [] c = ","  -> <<"C", "O", "M", "M", "A">>
    [] c = "."  -> <<"D", "O", "T">>
    [] c = "?"  -> <<"Q", "M", "A", "R", "K">>
    [] c = "/"  -> <<"S", "L", "A", "S", "H">>
    [] c = "\n" -> <<"L", "F">>
    [] c = "\r" -> <<"C", "R">>
    [] c = "\t" -> <<"T", "A", "B">>
    [] OTHER    -> NoReplacement

\* NeedsSeparator without the test !result.ends_with('_')
NeedsSeparatorNonEmpty(result) == result # <<>>

\* the condition of the if at lib.rs 104
NeedsSeparator(result) ==
  result # <<>> /\ result[Len(result)] # "_"

\* SanitizeChar pushing the separator before the continue of an unmapped
\* character
SanitizeCharSeparatesDropped(result, c) ==
  IF IsPassThrough(c)
    THEN Append(result, c)
    ELSE LET replacement == Replacement(c)
             separated == IF NeedsSeparator(result) THEN Append(result, "_")
                                                    ELSE result
         IN  IF replacement = NoReplacement
               THEN separated
               ELSE separated \o replacement

\* SanitizeChar without the separator
SanitizeCharNoSeparator(result, c) ==
  IF IsPassThrough(c)
    THEN Append(result, c)
    ELSE result \o Replacement(c)

\* the body of the for c in name.chars() loop, lib.rs 60-108
SanitizeChar(result, c) ==
  IF IsPassThrough(c)
    THEN Append(result, c)
    ELSE LET replacement == Replacement(c)
         IN  IF replacement = NoReplacement
               THEN result
               ELSE (IF NeedsSeparator(result) THEN Append(result, "_")
                                               ELSE result) \o replacement

RECURSIVE SanitizeLoop(_, _)
SanitizeLoop(result, rest) ==
  IF rest = <<>> THEN result
  ELSE SanitizeLoop(SanitizeChar(result, Head(rest)), Tail(rest))

sanitize_identifier(name) == SanitizeLoop(<<>>, name)

\* ------------------------------------------------------------------------
\* State
\* ------------------------------------------------------------------------
VARIABLES
  \* one run of sanitize_identifier
  name,        \* the argument
  idx,         \* position of the loop in name.chars()
  result,      \* the String being built
  seps,        \* positions of result written by result.push('_') at lib.rs 105
  spc,         \* "idle", "loop" or "done"
  returned,    \* the value returned at lib.rs 110
  \* one expansion of #[visitor_trait(..)] and the consumer of the trait
  pc,          \* "idle", "start", "aborted", "expanded", "ready", "panicked"
  args,        \* the attribute's arguments
  fs,          \* what the file system answers for the schema path
  file,        \* the contents of the schema file
  input,       \* the items of the trait the attribute is applied to
  emitted,     \* the token stream the macro returns
  self,        \* the consumer implementing the trait
  dispatched,  \* kinds of the nodes dispatched so far
  last         \* the latest call made on the consumer and its outcome

sanVars == <<name, idx, result, seps, spc, returned>>
genVars == <<pc, args, fs, file, input, emitted, self, dispatched, last>>
vars == <<name, idx, result, seps, spc, returned,
          pc, args, fs, file, input, emitted, self, dispatched, last>>

\* ------------------------------------------------------------------------
\* Inputs of sanitize_identifier: every string of at most MaxLen characters
\* over pass-through characters of each class, two characters of the
\* substitution table and a character of neither (the space)
\* ------------------------------------------------------------------------
Alphabet == {"a", "b", "Z", "7", "_", ",", "(", " "}

Strings(n) == UNION {[1..k -> Alphabet] : k \in 0..n}

NoTokens == [ok |-> FALSE, items |-> <<>>]
NoSelf == [consumer |-> "none", overrides |-> {}, counts |-> <<>>]
NoCall ==
  [call |-> "none", node |-> <<>>,
   out |-> [ok |-> TRUE, value |-> <<>>,
            panic |-> [macro |-> "none", fmt |-> "", arg |-> <<>>], calls |-> <<>>]]

GenIdle ==
  /\ pc = "idle" /\ args = "none" /\ fs = "none" /\ file = <<>>
  /\ input = <<>> /\ emitted = NoTokens /\ self = NoSelf
  /\ dispatched = <<>> /\ last = NoCall

InitSan ==
  /\ name \in Strings(MaxLen)
  /\ idx = 1
  /\ result = <<>>
  /\ seps = {}
  /\ spc = "loop"
  /\ returned = <<>>
  /\ GenIdle

\* one iteration of the loop at lib.rs 59-109
SanitizeStep ==
  /\ spc = "loop"
  /\ idx <= Len(name)
  /\ result' = SanitizeChar(result, name[idx])
  /\ seps' = IF /\ Replacement(name[idx]) # NoReplacement
                /\ Len(result') = Len(result) + 1 + Len(Replacement(name[idx]))
             THEN seps \cup {Len(result) + 1}
             ELSE seps
  /\ idx' = idx + 1
  /\ UNCHANGED <<name, spc, returned>>
  /\ UNCHANGED genVars

\* the loop is over: result is returned (lib.rs 110)
SanitizeReturn ==
  /\ spc = "loop"
  /\ idx > Len(name)
  /\ spc' = "done"
  /\ returned' = result
  /\ UNCHANGED <<name, idx, result, seps>>
  /\ UNCHANGED genVars

NextSan == SanitizeStep \/ SanitizeReturn

SpecSan == InitSan /\ [][NextSan]_vars

\* ------------------------------------------------------------------------
\* visitor_trait (lib.rs 113-173)
\* ------------------------------------------------------------------------
fizz == <<"f", "i", "z", "z">>
buzz == <<"b", "u", "z", "z">>
root == <<"r", "o", "o", "t">>
number == <<"n", "u", "m", "b", "e", "r">>
add_expr == <<"a", "d", "d", "_", "e", "x", "p", "r">>
plus == <<"+">>
ERROR == <<"E", "R", "R", "O", "R">>

\* Raw names of the schemas tried: two plain ones, and two different ones
\* with the same sanitized identifier
RawNames == {fizz, buzz, <<",">>, <<"C", "O", "M", "M", "A">>}

\* A record of the schema: an object whose "type" is a string, is a number,
\* or is absent
Records ==
  {[tag |-> "str", type |-> n] : n \in RawNames}
    \cup {[tag |-> "num", type |-> <<>>], [tag |-> "absent", type |-> <<>>]}

RecordsOf(names) == [i \in 1..Len(names) |-> [tag |-> "str", type |-> names[i]]]

\* the schema of the test grammar, without and with its anonymous token
CalcSchemas == {<<root, number, add_expr>>, <<root, number, add_expr, plus>>}

\* Contents of the schema file: not JSON, or an array of records
Files ==
  {[json |-> "garbage", records |-> <<>>]}
    \cup {[json |-> "array", records |-> r] :
            r \in UNION {[1..k -> Records] : k \in 0..MaxSchemaLen}}
    \cup {[json |-> "array", records |-> RecordsOf(sch)] : sch \in CalcSchemas}

\* an item the consumer wrote in the trait before the attribute expands it
UserItem ==
  [item |-> "fn", name |-> <<"h", "e", "l", "p">>, doc |-> <<>>,
   payload |-> <<>>, arms |-> <<>>]

\* Parses accepting any array of objects
ParsesAnyArray(f) == f.json = "array"

\* from_reader::<Vec<Node>> of serde (lib.rs 52-55, 127): every record must
\* carry a string "type"
Parses(f) ==
  /\ f.json = "array"
  /\ \A i \in 1..Len(f.records) : f.records[i].tag = "str"

Parsed(f) == [i \in 1..Len(f.records) |-> f.records[i].type]

\* {:?} of one character of a str
EscapeDebug(c) ==
  CASE c = "\"" -> <<"\\", "\"">>
    [] c = "\\" -> <<"\\", "\\">>
    [] c = "\n" -> <<"\\", "n">>
    [] c = "\r" -> <<"\\", "r">>
    [] c = "\t" -> <<"\\", "t">>
    [] OTHER    -> <<c>>

RECURSIVE Flatten(_)
Flatten(ss) == IF ss = <<>> THEN <<>> ELSE Head(ss) \o Flatten(Tail(ss))

\* the doc_name of lib.rs 135: the Debug form of raw_name, with a backslash
\* put before every backtick
DocName(raw_name) ==
  LET debug == <<"\"">> \o Flatten([i \in 1..Len(raw_name) |-> EscapeDebug(raw_name[i])])
                 \o <<"\"">>
  IN  Flatten([i \in 1..Len(debug) |->
                 IF debug[i] = Backtick THEN <<"\\", Backtick>>
                                        ELSE <<debug[i]>>])

visit_ == <<"v", "i", "s", "i", "t", "_">>

\* format_ident!("visit_{}", sanitized_name)  (lib.rs 134)
MethodName(raw_name) == visit_ \o sanitize_identifier(raw_name)

\* TraitFn whose default body carries the raw name
TraitFnRawPayload(raw_name) ==
  [item |-> "fn",
   name |-> MethodName(raw_name),
   doc |-> <<"Visits a node of type ", Backtick, DocName(raw_name), Backtick>>,
   payload |-> raw_name,
   arms |-> <<>>]

\* the trait_fn of one symbol (lib.rs 138-143)
TraitFn(raw_name) ==
  [item |-> "fn",
   name |-> MethodName(raw_name),
   doc |-> <<"Visits a node of type ", Backtick, DocName(raw_name), Backtick>>,
   payload |-> sanitize_identifier(raw_name),
   arms |-> <<>>]

\* MatchArm matching the sanitized name instead of the raw one
MatchArmSanitizedPattern(raw_name) ==
  [pattern |-> sanitize_identifier(raw_name), method |-> MethodName(raw_name)]

\* the match_arm of one symbol (lib.rs 145-147)
MatchArm(raw_name) ==
  [pattern |-> raw_name, method |-> MethodName(raw_name)]

\* lib.rs 153-155
ReturnItem ==
  [item |-> "type", name |-> <<"R", "e", "t", "u", "r", "n", "T", "y", "p", "e">>,
   doc |-> <<>>, payload |-> <<>>, arms |-> <<>>]

\* DispatchVisitFn without the arm of the last symbol
DispatchVisitFnDropsLastArm(match_arms) ==
  [item |-> "fn", name |-> <<"v", "i", "s", "i", "t">>,
   doc |-> <<"Visits a node of any type.">>, payload |-> <<>>,
   arms |-> SubSeq(match_arms, 1, Len(match_arms) - 1)]

\* lib.rs 156-164
DispatchVisitFn(match_arms) ==
  [item |-> "fn", name |-> <<"v", "i", "s", "i", "t">>,
   doc |-> <<"Visits a node of any type.">>, payload |-> <<>>,
   arms |-> match_arms]

\* the two halves of the unzip at lib.rs 129-151
TraitFns(parsed) == [i \in 1..Len(parsed) |-> TraitFn(parsed[i])]
MatchArms(parsed) == [i \in 1..Len(parsed) |-> MatchArm(parsed[i])]

\* the items of the expanded trait (lib.rs 166-170)
ExpandedItems(parsed, input_items) ==
  <<ReturnItem, DispatchVisitFn(MatchArms(parsed))>>
    \o TraitFns(parsed) \o input_items

InitGen ==
  /\ pc = "start"
  /\ args \in {"str", "empty", "other"}
  /\ fs \in {"ok", "no_parent", "open_fails"}
  /\ file \in Files
  /\ input \in {<<>>, <<UserItem>>}
  /\ emitted = NoTokens
  /\ self = NoSelf
  /\ dispatched = <<>>
  /\ last = NoCall
  /\ name = <<>> /\ idx = 1 /\ result = <<>> /\ seps = {}
  /\ spc = "idle" /\ returned = <<>>

\* the conditions under which the macro panics before it returns tokens:
\* lib.rs 118-121 (no string literal), 124 and 126 (the unwraps), 127 (expect)
Aborts ==
  \/ args # "str"
  \/ fs # "ok"
  \/ ~Parses(file)

\* one expansion of the attribute (lib.rs 114-173)
VisitorTrait ==
  /\ pc = "start"
  /\ IF Aborts
       THEN /\ pc' = "aborted"
            /\ emitted' = NoTokens
       ELSE /\ pc' = "expanded"
            /\ emitted' = [ok |-> TRUE,
                           items |-> ExpandedItems(Parsed(file), input)]
  /\ UNCHANGED <<args, fs, file, input, self, dispatched, last>>
  /\ UNCHANGED sanVars

\* ------------------------------------------------------------------------
\* The expanded trait at run time: visit, the default bodies, and the
\* consumers implementing it
\* ------------------------------------------------------------------------
\* rustc accepts the expanded trait only if no two of its items share a name
Compiles(items) ==
  \A i, j \in 1..Len(items) : items[i].name = items[j].name => i = j

GeneratedMethods(items) ==
  {items[i].name : i \in {j \in 1..Len(items) :
      /\ items[j].item = "fn"
      /\ Len(items[j].name) >= Len(visit_)
      /\ SubSeq(items[j].name, 1, Len(visit_)) = visit_}}

ItemNamed(items, n) ==
  items[CHOOSE i \in 1..Len(items) : items[i].name = n]

\* Nodes of a syntax tree: kind(), the text of byte_range(), and the children
\* with the field name each has in its parent
Leaf(k, t) == [kind |-> k, text |-> t, kids |-> <<>>]
Kid(f, n) == [field |-> f, node |-> n]
AddExpr(l, r) ==
  [kind |-> add_expr, text |-> <<>>,
   kids |-> <<Kid("lhs", l), Kid("none", Leaf(plus, plus)), Kid("rhs", r)>>]
Root(c) == [kind |-> root, text |-> <<>>, kids |-> <<Kid("none", c)>>]

\* Outcomes of a call: a returned value, or a panic that unwinds the caller
NoPanic == [macro |-> "none", fmt |-> "", arg |-> <<>>]
Returns(v, calls) == [ok |-> TRUE, value |-> <<v>>, panic |-> NoPanic, calls |-> calls]
Panics(m, f, a, calls) ==
  [ok |-> FALSE, value |-> <<>>, panic |-> [macro |-> m, fmt |-> f, arg |-> a],
   calls |-> calls]
Unit == 0

DigitValue(c) ==
  CASE c = "0" -> 0 [] c = "1" -> 1 [] c = "2" -> 2 [] c = "3" -> 3
    [] c = "4" -> 4 [] c = "5" -> 5 [] c = "6" -> 6 [] c = "7" -> 7
    [] c = "8" -> 8 [] c = "9" -> 9

RECURSIVE Decimal(_)
Decimal(t) ==
  IF t = <<>> THEN 0
  ELSE 10 * Decimal(SubSeq(t, 1, Len(t) - 1)) + DigitValue(t[Len(t)])

\* str::parse::<f64> on the text of a number node (tests lib.rs 34): the
\* value of a string of digits, an Err otherwise
ParseOk(t) == t # <<>> /\ \A i \in 1..Len(t) : t[i] \in Digit

\* node.child(0) and node.child_by_field_name(f): the positions that answer
ChildAt0(node) == IF node.kids = <<>> THEN {} ELSE {1}
ChildByFieldName(node, f) ==
  LET at == {i \in 1..Len(node.kids) : node.kids[i].field = f}
  IN  IF at = {} THEN {}
      ELSE {CHOOSE i \in at : \A j \in at : i <= j}

\* the arm of the match in visit that takes a kind (lib.rs 159-162): the
\* first whose pattern is the kind
FirstArmFor(arms, kind) ==
  LET at == {i \in 1..Len(arms) : arms[i].pattern = kind}
  IN  IF at = {} THEN 0 ELSE CHOOSE i \in at : \A j \in at : i <= j

\* the default body of a generated method: unimplemented!(#sanitized_name)
\* (lib.rs 140-142)
DefaultBody(items, method, calls) ==
  Panics("unimplemented", "not implemented: {}",
         ItemNamed(items, method).payload, calls)

\* an override of the counting consumer: its counter is incremented (see
\* Counted) and () is returned
CounterOverride(calls) == Returns(Unit, calls)

RECURSIVE visit(_, _, _), call_method(_, _, _, _)

\* visit with the wildcard arm of the expansion shown in the crate
\* documentation (lib.rs 27): unimplemented!() without the kind
visitUnknownUnimplemented(slf, items, node) ==
  LET arms == ItemNamed(items, <<"v", "i", "s", "i", "t">>).arms
      arm == FirstArmFor(arms, node.kind)
  IN  IF arm = 0
        THEN Panics("unimplemented", "not implemented", <<>>, <<>>)
        ELSE call_method(slf, items, arms[arm].method, node)

\* the generated fn visit (lib.rs 158-163)
visit(slf, items, node) ==
  LET arms == ItemNamed(items, <<"v", "i", "s", "i", "t">>).arms
      arm == FirstArmFor(arms, node.kind)
  IN  IF arm = 0
        THEN Panics("panic", "unknown node kind: {}", node.kind, <<>>)
        ELSE call_method(slf, items, arms[arm].method, node)

\* self.<method>(node): the override of the consumer if it has one, the
\* default body otherwise
call_method(slf, items, method, node) ==
  LET this == <<[method |-> method, node |-> node]>>
      Then(r) == [r EXCEPT !.calls = this \o r.calls]
  IN
  IF method \notin slf.overrides
    THEN DefaultBody(items, method, this)
  ELSE IF slf.consumer = "Counter"
    THEN CounterOverride(this)
  ELSE IF method = visit_ \o root
    \* tests lib.rs 29-31
    THEN IF ChildAt0(node) = {}
           THEN Panics("unwrap", "called Option::unwrap() on a None value", <<>>, this)
           ELSE Then(visit(slf, items,
                           node.kids[CHOOSE i \in ChildAt0(node) : TRUE].node))
  ELSE IF method = visit_ \o number
    \* tests lib.rs 33-35
    THEN IF ParseOk(node.text)
           THEN Returns(Decimal(node.text), this)
           ELSE Panics("unwrap", "called Result::unwrap() on an Err value", <<>>, this)
  ELSE
    \* visit_add_expr, tests lib.rs 37-42
    LET l == ChildByFieldName(node, "lhs")
        r == ChildByFieldName(node, "rhs")
    IN  IF l = {}
          THEN Panics("unwrap", "called Option::unwrap() on a None value", <<>>, this)
          ELSE LET lhs == visit(slf, items, node.kids[CHOOSE i \in l : TRUE].node)
               IN  IF ~lhs.ok THEN Then(lhs)
                   ELSE IF r = {}
                     THEN Panics("unwrap", "called Option::unwrap() on a None value",
                                 <<>>, this \o lhs.calls)
                   ELSE LET rhs == visit(slf, items,
                                         node.kids[CHOOSE i \in r : TRUE].node)
                        IN  IF ~rhs.ok
                              THEN [rhs EXCEPT !.calls = this \o lhs.calls \o rhs.calls]
                              ELSE Returns(lhs.value[1] + rhs.value[1],
                                           this \o lhs.calls \o rhs.calls)

CalculatorOverrides == {visit_ \o root, visit_ \o number, visit_ \o add_expr}

\* The consumers that can implement the expanded trait: a counting consumer
\* overriding any of the generated methods, and the Calculator (tests lib.rs
\* 21-46) where the trait has the three methods it overrides
Consumers(items) ==
  {[consumer |-> "Counter", overrides |-> o, counts |-> [m \in o |-> 0]] :
     o \in SUBSET GeneratedMethods(items)}
  \cup (IF CalculatorOverrides \subseteq GeneratedMethods(items)
          THEN {[consumer |-> "Calculator", overrides |-> CalculatorOverrides,
                 counts |-> <<>>]}
          ELSE {})

\* The kinds a parsed node can carry: those of the schemas, the kinds of the
\* test grammar, and ERROR, which no schema lists
NodeKinds == RawNames \cup {root, number, add_expr, plus, ERROR}

Operands ==
  {Leaf(number, t) : t \in {<<"1">>, <<"2">>}}
    \cup {Leaf(plus, plus), Leaf(ERROR, <<>>)}

\* The trees given to the Calculator; Root(AddExpr(1, 2)) is the tree of "1 + 2"
CalcTrees ==
  LET adds == {AddExpr(l, r) : l, r \in Operands}
  IN  Operands \cup adds \cup {Root(c) : c \in Operands \cup adds}
        \cup {Leaf(root, <<>>)}

Nodes(slf) ==
  IF slf.consumer = "Calculator" THEN CalcTrees
  ELSE {Leaf(k, <<>>) : k \in NodeKinds}

\* The nodes given to a method called directly: no method but those of the
\* Calculator looks at its node
DirectNodes(slf) ==
  IF slf.consumer = "Calculator" THEN CalcTrees ELSE {Leaf(ERROR, <<>>)}

\* the number of calls of visit the consumer's program makes: the test of the
\* Calculator makes one (tests lib.rs 61)
VisitLimit(slf) == IF slf.consumer = "Calculator" THEN 1 ELSE MaxVisits

Count(calls, m) == Cardinality({i \in 1..Len(calls) : calls[i].method = m})

\* the counters of the consumer after the calls of an outcome
Counted(slf, calls) ==
  IF slf.consumer = "Counter"
    THEN [slf EXCEPT !.counts = [m \in slf.overrides |-> @[m] + Count(calls, m)]]
    ELSE slf

\* a type implementing the trait is written and compiled
Implement ==
  /\ pc = "expanded"
  /\ Compiles(emitted.items)
  /\ self' \in Consumers(emitted.items)
  /\ pc' = "ready"
  /\ UNCHANGED <<args, fs, file, input, emitted, dispatched, last>>
  /\ UNCHANGED sanVars

\* the program calls visit on a node
Visit ==
  /\ pc = "ready"
  /\ Len(dispatched) < VisitLimit(self)
  /\ \E node \in Nodes(self) :
       LET out == visit(self, emitted.items, node)
       IN  /\ last' = [call |-> "visit", node |-> node, out |-> out]
           /\ dispatched' = Append(dispatched, node.kind)
           /\ self' = Counted(self, out.calls)
           /\ pc' = IF out.ok THEN "ready" ELSE "panicked"
  /\ UNCHANGED <<args, fs, file, input, emitted>>
  /\ UNCHANGED sanVars

\* the program calls one generated method directly, and ends
CallDirect ==
  /\ pc = "ready"
  /\ \E method \in GeneratedMethods(emitted.items), node \in DirectNodes(self) :
       LET out == call_method(self, emitted.items, method, node)
       IN  /\ last' = [call |-> "direct", node |-> node, out |-> out]
           /\ self' = Counted(self, out.calls)
           /\ pc' = IF out.ok THEN "ended" ELSE "panicked"
  /\ UNCHANGED <<args, fs, file, input, emitted, dispatched>>
  /\ UNCHANGED sanVars

Init == InitGen

Next == VisitorTrait \/ Implement \/ Visit \/ CallDirect

Spec == Init /\ [][Next]_vars

\* ------------------------------------------------------------------------
\* Properties of sanitize_identifier (checked under SpecSan)
\* ------------------------------------------------------------------------
\* ASCII letters, digits and the underscore
IdentChars == Lower \cup Upper \cup Digit \cup {"_"}
IsIdentSafe(str) == \A i \in 1..Len(str) : str[i] \in IdentChars
IsTableChar(c) == c \notin IdentChars /\ Replacement(c) # NoReplacement
IsUnmapped(c) == c \notin IdentChars /\ Replacement(c) = NoReplacement
COMMA == <<"C", "O", "M", "M", "A">>

\* name = x c y: c a table character at position k, x and y non-empty and
\* identifier-safe, no underscore next to c
IsInfix(k) ==
  /\ 1 < k /\ k < Len(name)
  /\ IsTableChar(name[k])
  /\ \A i \in 1..Len(name) : i # k => name[i] \in IdentChars
  /\ name[k - 1] # "_" /\ name[k + 1] # "_"

\* C3 as stated: sanitize(c) = M, and sanitize(x c y) = x "_" M "_" y
\* (sanitize("a,b") = "a_COMMA_b").
C3_Original ==
  spc = "done" =>
    /\ (Len(name) = 1 /\ IsTableChar(name[1]) => returned = Replacement(name[1]))
    /\ \A k \in 1..Len(name) : IsInfix(k) =>
         returned = SubSeq(name, 1, k - 1) \o <<"_">> \o Replacement(name[k])
                      \o <<"_">> \o SubSeq(name, k + 1, Len(name))

\* C3 amended: sanitize(c) = M, and sanitize(x c y) = x "_" M y: the
\* mnemonic is separated by an underscore from the identifier character
\* before it only (sanitize("a,b") = "a_COMMAb").
C3_MnemonicSeparatedBefore ==
  spc = "done" =>
    /\ (Len(name) = 1 /\ IsTableChar(name[1]) => returned = Replacement(name[1]))
    /\ \A k \in 1..Len(name) : IsInfix(k) =>
         returned = SubSeq(name, 1, k - 1) \o <<"_">> \o Replacement(name[k])
                      \o SubSeq(name, k + 1, Len(name))
    /\ (name = <<",">> => returned = COMMA)
    /\ (name = <<"a", ",", "b">> => returned = <<"a", "_">> \o COMMA \o <<"b">>)

C3_Witness ==
  /\ spc = "done"
  /\ name = <<"a", ",", "b">>
  /\ returned = <<"a", "_", "C", "O", "M", "M", "A", "b">>

HasDoubledUnderscore(str) ==
  \E i \in 1..(Len(str) - 1) : str[i] = "_" /\ str[i + 1] = "_"

\* C7 as stated: for every name, the result does not begin with an
\* underscore, and no underscore pushed by the sanitizer is next to another.
C7_Original ==
  /\ \A p \in seps :
       /\ result[p] = "_"
       /\ (p > 1 => result[p - 1] # "_")
       /\ (p < Len(result) => result[p + 1] # "_")
  /\ spc = "done" /\ returned # <<>> => returned[1] # "_"

\* C7 amended: an underscore pushed by the sanitizer is never the first character of
\* the result and never next to another underscore, at any point of the loop;
\* so a name with no underscore of its own gives a result with no leading and
\* no doubled underscore, a name starting with a table character gives a
\* result starting with its mnemonic, and ",," gives COMMA_COMMA.
C7_NoLeadingOrDoubledSeparator ==
  /\ \A p \in seps :
       /\ 1 < p /\ p < Len(result)
       /\ result[p] = "_"
       /\ result[p - 1] # "_"
       /\ result[p + 1] # "_"
  /\ spc = "done" =>
       /\ ((\A i \in 1..Len(name) : name[i] # "_") =>
             /\ (returned # <<>> => returned[1] # "_")
             /\ ~HasDoubledUnderscore(returned))
       /\ (name # <<>> /\ IsTableChar(name[1]) =>
             SubSeq(returned, 1, Len(Replacement(name[1]))) = Replacement(name[1]))
       /\ (name = <<",", ",">> => returned = COMMA \o <<"_">> \o COMMA)

C7_Witness ==
  /\ spc = "done"
  /\ name = <<",", ",">>
  /\ returned = <<"C", "O", "M", "M", "A", "_", "C", "O", "M", "M", "A">>
  /\ seps = {6}

\* C9: sanitize_identifier returns an identifier-safe name unchanged (the
\* empty name included), and sanitizing the result again changes nothing.
C9_IdentityOnIdentSafe ==
  spc = "done" /\ IsIdentSafe(name) =>
    /\ returned = name
    /\ sanitize_identifier(returned) = returned

C9_Witness ==
  /\ spc = "done"
  /\ name = <<"a", "_", "7">>
  /\ returned = <<"a", "_", "7">>

WithoutUnmapped(str) == SelectSeq(str, LAMBDA c : ~IsUnmapped(c))

\* C10: characters neither passed through nor in the table leave no trace:
\* the result is that of the name with them removed, it is identifier-safe,
\* and a name made only of such characters gives the empty result.
C10_UnmappedDropped ==
  spc = "done" =>
    /\ returned = sanitize_identifier(WithoutUnmapped(name))
    /\ IsIdentSafe(returned)
    /\ ((\A i \in 1..Len(name) : IsUnmapped(name[i])) => returned = <<>>)

C10_Witness ==
  /\ spc = "done"
  /\ name = <<"a", " ", ",">>
  /\ returned = <<"a", "_", "C", "O", "M", "M", "A">>

C10_WitnessEmpty ==
  /\ spc = "done"
  /\ name = <<" ", " ">>
  /\ returned = <<>>

\* ------------------------------------------------------------------------
\* Properties of the expansion and of the expanded trait (checked under Spec)
\* ------------------------------------------------------------------------
Schema == Parsed(file)
SchemaKinds == {Schema[i] : i \in 1..Len(Schema)}
FirstDescriptor(kind) ==
  CHOOSE i \in 1..Len(Schema) :
    /\ Schema[i] = kind
    /\ \A j \in 1..Len(Schema) : Schema[j] = kind => i <= j
Occurrences(kinds, k) == Cardinality({i \in 1..Len(kinds) : kinds[i] = k})

\* C1: visit on a node whose kind is in the schema calls the method
\* visit_<sanitize(raw name)> of the first descriptor with that raw name, with
\* the same node, before any other method, and returns what that call
\* returns; a counting consumer is called once per node, so that after a
\* sequence of dispatches the counter of each kind is the number of nodes of
\* that kind in the sequence.
C1_DispatchToFirstMatch ==
  /\ last.call = "visit" /\ last.node.kind \in SchemaKinds =>
       LET m == visit_ \o sanitize_identifier(Schema[FirstDescriptor(last.node.kind)])
       IN  /\ last.out.calls # <<>>
           /\ last.out.calls[1] = [method |-> m, node |-> last.node]
           /\ last.out = call_method(self, emitted.items, m, last.node)
           /\ self.consumer = "Counter" => Len(last.out.calls) = 1
  /\ pc = "ready" /\ self.consumer = "Counter" =>
       \A k \in SchemaKinds :
         MethodName(k) \in self.overrides =>
           self.counts[MethodName(k)] = Occurrences(dispatched, k)
  /\ pc = "ready" /\ dispatched = <<fizz, buzz, fizz, fizz, buzz>> =>
       self.counts[visit_ \o fizz] = 3 /\ self.counts[visit_ \o buzz] = 2

C1_Witness ==
  /\ pc = "ready"
  /\ Schema = <<fizz, buzz>>
  /\ dispatched = <<fizz, buzz, fizz, fizz, buzz>>
  /\ self.counts[visit_ \o fizz] = 3
  /\ self.counts[visit_ \o buzz] = 2
  /\ last.out.calls = <<[method |-> visit_ \o buzz, node |-> Leaf(buzz, <<>>)]>>

\* C2 as stated: for every descriptor of the schema, the expanded trait has
\* exactly one method named visit_<sanitize(raw name)>.
C2_ExactlyOneMethodPerName ==
  emitted.ok =>
    \A i \in 1..Len(Schema) :
      Cardinality({j \in 1..Len(emitted.items) :
                     /\ emitted.items[j].item = "fn"
                     /\ emitted.items[j].name = MethodName(Schema[i])}) = 1

\* C4: visit on a node whose kind no raw name of the schema equals panics with
\* "unknown node kind: <kind>", calls no method and returns no value.
C4_UnknownKindPanics ==
  last.call = "visit" /\ last.node.kind \notin SchemaKinds =>
    /\ ~last.out.ok
    /\ last.out.value = <<>>
    /\ last.out.calls = <<>>
    /\ last.out.panic = [macro |-> "panic", fmt |-> "unknown node kind: {}",
                         arg |-> last.node.kind]
    /\ pc = "panicked"

C4_Witness ==
  /\ pc = "panicked"
  /\ last.call = "visit"
  /\ Schema = <<fizz, buzz>>
  /\ last.node.kind = ERROR
  /\ last.out.panic.arg = ERROR
  /\ dispatched = <<fizz, ERROR>>

\* C5: the default body of the method generated for a descriptor is
\* unimplemented! with the sanitized identifier of that descriptor; a direct
\* call of a method the consumer does not override, and a visit of a node
\* whose kind has such a method, panic with that identifier and return no
\* value.
C5_DefaultBodyFails ==
  /\ emitted.ok =>
       \A i \in 1..Len(Schema) :
         /\ emitted.items[2 + i].name = visit_ \o sanitize_identifier(Schema[i])
         /\ emitted.items[2 + i].payload = sanitize_identifier(Schema[i])
  /\ last.call = "direct" /\ last.out.calls[1].method \notin self.overrides =>
       LET m == last.out.calls[1].method
       IN  /\ ~last.out.ok
           /\ last.out.value = <<>>
           /\ last.out.panic = [macro |-> "unimplemented", fmt |-> "not implemented: {}",
                                arg |-> SubSeq(m, Len(visit_) + 1, Len(m))]
           /\ pc = "panicked"
  /\ /\ last.call = "visit"
     /\ last.node.kind \in SchemaKinds
     /\ MethodName(last.node.kind) \notin self.overrides
     => /\ ~last.out.ok
        /\ last.out.value = <<>>
        /\ last.out.panic = [macro |-> "unimplemented", fmt |-> "not implemented: {}",
                             arg |-> sanitize_identifier(last.node.kind)]
        /\ pc = "panicked"

C5_Witness ==
  /\ pc = "panicked"
  /\ last.call = "direct"
  /\ Schema = <<fizz, <<",">> >>
  /\ self.overrides = {visit_ \o fizz}
  /\ last.out.panic = [macro |-> "unimplemented", fmt |-> "not implemented: {}",
                       arg |-> COMMA]

C5_WitnessVisit ==
  /\ pc = "panicked"
  /\ last.call = "visit"
  /\ Schema = <<fizz, <<",">> >>
  /\ self.overrides = {visit_ \o fizz}
  /\ last.node.kind = <<",">>
  /\ last.out.panic.arg = COMMA

\* the nodes the Calculator goes through when nothing fails on the way
RECURSIVE Traversed(_)
Traversed(n) ==
  {n} \cup
    (IF n.kind = root /\ n.kids # <<>> THEN Traversed(n.kids[1].node)
     ELSE IF n.kind = add_expr
       THEN UNION {Traversed(n.kids[i].node) :
                     i \in {j \in 1..Len(n.kids) : n.kids[j].field \in {"lhs", "rhs"}}}
     ELSE {})

\* the value of a tree of numbers and additions
RECURSIVE Expected(_)
Expected(n) ==
  IF n.kind = number THEN (IF n.text = <<"1">> THEN 1 ELSE 2)
  ELSE IF n.kind = root THEN Expected(n.kids[1].node)
  ELSE Expected(n.kids[1].node) + Expected(n.kids[3].node)

WellFormed(n) ==
  /\ n.kind = root => Len(n.kids) = 1
  /\ n.kind = add_expr => Len(n.kids) = 3

OnePlusTwo == Root(AddExpr(Leaf(number, <<"1">>), Leaf(number, <<"2">>)))

\* C6: with the Calculator, visit on a tree calls, for every node it reaches,
\* the override of that node's kind, and the results compose: a tree of
\* root, add_expr and number nodes gives the sum of its numbers (3 for
\* "1 + 2"); if a node on the way has a kind whose method is not overridden,
\* the call panics and returns no value.
C6_IncrementalOverride ==
  last.call = "visit" /\ self.consumer = "Calculator" =>
    /\ \A i \in 1..Len(last.out.calls) :
         last.out.calls[i].method = MethodName(last.out.calls[i].node.kind)
    /\ (\E n \in Traversed(last.node) :
          n.kind \notin SchemaKinds \/ MethodName(n.kind) \notin self.overrides)
       => ~last.out.ok /\ last.out.value = <<>> /\ pc = "panicked"
    /\ (\A n \in Traversed(last.node) :
          n.kind \in {root, number, add_expr} /\ WellFormed(n))
       => /\ last.out.ok
          /\ last.out.value = <<Expected(last.node)>>
          /\ {last.out.calls[i].node : i \in 1..Len(last.out.calls)}
               = Traversed(last.node)
    /\ last.node = OnePlusTwo => last.out.value = <<3>>

C6_Witness ==
  /\ self.consumer = "Calculator"
  /\ last.call = "visit"
  /\ last.node = OnePlusTwo
  /\ last.out.ok
  /\ last.out.value = <<3>>
  /\ Len(last.out.calls) = 4

C6_WitnessFails ==
  /\ self.consumer = "Calculator"
  /\ last.call = "visit"
  /\ last.node = Root(AddExpr(Leaf(number, <<"1">>), Leaf(plus, plus)))
  /\ Schema = <<root, number, add_expr, plus>>
  /\ ~last.out.ok
  /\ last.out.panic.arg = <<"P", "L", "U", "S">>

====
